---- MODULE Spec2Model ----
(***************************************************************************)
(* Model of the job scheduler microservice: the job store (table "jobs"),  *)
(* the REST service JobsService (create / update / remove) behind its      *)
(* controller and validation pipe, and the SchedulerService tick handler   *)
(* with its awaits as separate steps.                                      *)
(*                                                                         *)
(* Instants are milliseconds of local time counted from local midnight of  *)
(* day 0 (Date.getTime() shifted by a constant; no DST change inside the   *)
(* modelled days).  An absent timestamp (SQL NULL) is NoTime.              *)
(*                                                                         *)
(* A cron expression string is modelled by the tuple of its space          *)
(* separated fields; the field "*" is Star, a numeric literal is itself.   *)
(***************************************************************************)
EXTENDS Integers, Sequences, FiniteSets, TLC

VARIABLES
    clock,      \* the wall clock read by every `new Date()`
    jobs,       \* the table "jobs": id -> row or Null
    nextId,     \* the SERIAL sequence of jobs.id
    ticks,      \* the running invocations of checkAndRunJobs, by slot
    lastFired,  \* the minute boundary at which node-cron fired last
    apiOps,     \* API requests served so far
    calcExpr,   \* input of an isolated calculateNextRun evaluation
    calcOut,    \* its result
    audit,      \* whether the bookkeeping columns createdAt / updatedAt are
                \* observed in this behaviour; no code reads them, and where
                \* they are not observed they are held at NoTime
    request,    \* the HTTP request of an isolated call of the REST interface
    selection,  \* an isolated run of executeJob for one job name: the name,
                \* the executor JobFactory returned and how far the run got
    peerFired   \* the minute boundary at which the node-cron timer of a second
                \* scheduler process on the same store fired last

vars == <<clock, jobs, nextId, ticks, lastFired, apiOps, calcExpr, calcOut, audit, request, selection, peerFired>>

----------------------------------------------------------------------------
(* Bounds of the model *)

MaxJobs == 2          \* rows ever created
MaxInFlight == 2      \* invocations of checkAndRunJobs alive at once
MaxMinutes == 1       \* minutes of wall clock explored after the start
MaxOffsetSteps == 1   \* sub-minute clock readings explored per minute
MaxApiOps == 3        \* API requests served in one behaviour
CalcDays == 2         \* days covered by the isolated evaluations

----------------------------------------------------------------------------
(* Time *)

NoTime == -1
Null == [absent |-> TRUE]

\* a field of a request body is <<>> when the JSON body lacks the key and
\* <<v>> when it supplies the value v
EmptyBody ==
    [name |-> <<>>, description |-> <<>>, schedule |-> <<>>,
     isActive |-> <<>>, priority |-> <<>>]
NoRequest == [verb |-> "NONE", id |-> 0, body |-> EmptyBody]
NoSelection == [jobName |-> <<>>, executor |-> "none", pc |-> "none"]

MinuteMs == 60 * 1000
HourMs == 60 * 60 * 1000
DayMs == 24 * HourMs
ExecDelayMs == 2000

\* Date.prototype.getHours / getMinutes in local time
getHours(t) == (t % DayMs) \div HourMs
getMinutes(t) == (t % HourMs) \div MinuteMs
startOfDay(t) == (t \div DayMs) * DayMs

----------------------------------------------------------------------------
(* Cron expressions *)

Star == -1

EveryMinute == <<Star, Star, Star, Star, Star>>     \* '* * * * *'
EveryHour == <<0, Star, Star, Star, Star>>          \* '0 * * * *'
DailyMidnight == <<0, 0, Star, Star, Star>>         \* '0 0 * * *'
Daily9AM == <<0, 9, Star, Star, Star>>              \* '0 9 * * *'
HalfPast == <<30, Star, Star, Star, Star>>          \* '30 * * * *'
BadCron == <<99, Star, Star, Star, Star>>           \* '99 * * * *'

FieldMin == <<0, 0, 1, 1, 0>>
FieldMax == <<59, 23, 31, 12, 7>>

\* node-cron validate: five fields, each "*" or a literal in range
cronValidate(e) ==
    /\ Len(e) = 5
    /\ \A k \in 1..5 : e[k] = Star \/ (FieldMin[k] <= e[k] /\ e[k] <= FieldMax[k])

----------------------------------------------------------------------------
(* SchedulerService: the pure parts *)

\* calculateNextRun taking 09:00 of the same day during the whole hour
\* from 09:00 (getHours() > 9 for getHours() >= 9)
calculateNextRun_strictHour(cronExpression, now) ==
    IF cronExpression = EveryMinute THEN now + 60 * 1000
    ELSE IF cronExpression = EveryHour THEN now + 60 * 60 * 1000
    ELSE IF cronExpression = DailyMidnight THEN startOfDay(now) + DayMs
    ELSE IF cronExpression = Daily9AM THEN
        IF getHours(now) > 9
            THEN startOfDay(now) + 9 * HourMs + DayMs
            ELSE startOfDay(now) + 9 * HourMs
    ELSE now + 60 * 60 * 1000

\* calculateNextRun(cronExpression), with `now` the clock reading of its
\* own `new Date()`
\* a table whose '0 9 * * *' entry is 09:00 of the current day at any hour
calculateNextRun_todayAt9(cronExpression, now) ==
    IF cronExpression = EveryMinute THEN now + 60 * 1000
    ELSE IF cronExpression = EveryHour THEN now + 60 * 60 * 1000
    ELSE IF cronExpression = DailyMidnight THEN startOfDay(now) + DayMs
    ELSE IF cronExpression = Daily9AM THEN startOfDay(now) + 9 * HourMs
    ELSE now + 60 * 60 * 1000

calculateNextRun(cronExpression, now) ==
    IF cronExpression = EveryMinute THEN now + 60 * 1000
    ELSE IF cronExpression = EveryHour THEN now + 60 * 60 * 1000
    ELSE IF cronExpression = DailyMidnight THEN startOfDay(now) + DayMs
    ELSE IF cronExpression = Daily9AM THEN
        IF getHours(now) >= 9
            THEN startOfDay(now) + 9 * HourMs + DayMs
            ELSE startOfDay(now) + 9 * HourMs
    ELSE now + 60 * 60 * 1000

\* shouldRunBasedOnCron: (now - lastRun) / 1000 / 60 >= 1 on JS numbers
\* a cron check that never finds a job due
shouldRunBasedOnCron_never(lastRun, now, cronExpression) == FALSE

shouldRunBasedOnCron(lastRun, now, cronExpression) ==
    now - lastRun >= 1000 * 60

\* shouldJobRun validating the expression before the first-run rule
shouldJobRun_validateFirst(job, now) ==
    IF ~cronValidate(job.schedule) THEN FALSE
    ELSE IF job.lastRun = NoTime THEN TRUE
    ELSE IF job.nextRun # NoTime /\ now >= job.nextRun THEN TRUE
    ELSE shouldRunBasedOnCron(job.lastRun, now, job.schedule)

shouldJobRun(job, now) ==
    IF job.lastRun = NoTime THEN TRUE
    ELSE IF job.nextRun # NoTime /\ now >= job.nextRun THEN TRUE
    ELSE IF cronValidate(job.schedule)
        THEN shouldRunBasedOnCron(job.lastRun, now, job.schedule)
        ELSE FALSE

\* the due decision of checkAndRunJobs on a stored row: the row passes the
\* filter of findMany and shouldJobRun holds
selectedAsDue(row, now) == row.isActive /\ shouldJobRun(row, now)

----------------------------------------------------------------------------
(* The job store *)

JobIds == 1..MaxJobs

JobNames == {"send email"}
NullText == "NULL"      \* SQL NULL in the text column description
Schedules == {EveryMinute, Daily9AM, HalfPast, BadCron}

\* the value of `new Date()` that a write puts in a bookkeeping column
Stamp == IF audit THEN clock ELSE NoTime

\* prisma.job.create: the columns lastRun and nextRun are not supplied and
\* take their NULL default; createdAt has DEFAULT CURRENT_TIMESTAMP and
\* updatedAt (@updatedAt) is set by the client
NewRow(data) ==
    [name |-> data.name, description |-> data.description,
     schedule |-> data.schedule, isActive |-> data.isActive,
     lastRun |-> NoTime, nextRun |-> NoTime,
     createdAt |-> Stamp, updatedAt |-> Stamp]

\* prisma.job.update: only the supplied keys of `data` are written, and
\* the client sets the @updatedAt column
ApplyUpdate(row, data) ==
    [f \in DOMAIN row |-> IF f \in DOMAIN data THEN data[f]
                          ELSE IF f = "updatedAt" THEN Stamp
                          ELSE row[f]]

\* prisma.job.findMany({where: {isActive: true}}): the ids of the rows returned
ActiveIds == {id \in JobIds : jobs[id] # Null /\ jobs[id].isActive}

\* a fetched row, carrying its id
Fetched(id) == [id |-> id, name |-> jobs[id].name, schedule |-> jobs[id].schedule,
                lastRun |-> jobs[id].lastRun, nextRun |-> jobs[id].nextRun]

\* the orders in which findMany (no orderBy) may return the rows
Orderings(S) ==
    {q \in [1..Cardinality(S) -> S] : \A a, b \in 1..Cardinality(S) : a # b => q[a] # q[b]}

----------------------------------------------------------------------------
(* JobsService.  A DTO is a record holding exactly the keys the request    *)
(* body supplied: a key outside DOMAIN dto is `undefined`.                 *)

CreateJobDtos ==
    [name : JobNames, schedule : Schedules]
        \cup [name : JobNames, schedule : Schedules, isActive : BOOLEAN]

UpdateJobDtos ==
    [isActive : BOOLEAN] \cup [schedule : Schedules] \cup [name : JobNames]

\* a service whose jobs are inactive unless the request activates them
createData_inactiveByDefault(dto) ==
    [name |-> dto.name,
     description |-> IF "description" \in DOMAIN dto /\ dto.description # ""
                        THEN dto.description ELSE NullText,
     schedule |-> dto.schedule,
     isActive |-> IF "isActive" \in DOMAIN dto THEN dto.isActive ELSE FALSE]

createData(dto) ==
    [name |-> dto.name,
     description |-> IF "description" \in DOMAIN dto /\ dto.description # ""
                        THEN dto.description ELSE NullText,
     schedule |-> dto.schedule,
     isActive |-> IF "isActive" \in DOMAIN dto THEN dto.isActive ELSE TRUE]

\* an update that replaces the row: a description not supplied is cleared
updateData_replace(dto) ==
    [f \in (DOMAIN dto \cap {"name", "description", "schedule", "isActive"})
                \cup {"description"} |->
        IF f \in DOMAIN dto THEN dto[f] ELSE NullText]

updateData(dto) ==
    [f \in DOMAIN dto \cap {"name", "description", "schedule", "isActive"} |-> dto[f]]

\* prisma create refuses data lacking a required column and writes nothing
create(dto) ==
    /\ apiOps < MaxApiOps
    /\ nextId <= MaxJobs
    /\ IF {"name", "schedule"} \subseteq DOMAIN dto
        THEN /\ jobs' = [jobs EXCEPT ![nextId] = NewRow(createData(dto))]
             /\ nextId' = nextId + 1
        ELSE UNCHANGED <<jobs, nextId>>
    /\ apiOps' = apiOps + 1
    /\ UNCHANGED <<clock, ticks, lastFired, calcExpr, calcOut, audit, request, selection, peerFired>>

\* prisma update of a missing row rejects (P2025) and writes nothing
update(id, dto) ==
    /\ apiOps < MaxApiOps
    /\ id < nextId
    /\ jobs' = IF jobs[id] = Null THEN jobs
               ELSE [jobs EXCEPT ![id] = ApplyUpdate(jobs[id], updateData(dto))]
    /\ apiOps' = apiOps + 1
    /\ UNCHANGED <<clock, nextId, ticks, lastFired, calcExpr, calcOut, audit, request, selection, peerFired>>

\* a removal that deactivates the row and keeps it
remove_softDelete(id) ==
    /\ apiOps < MaxApiOps
    /\ id < nextId
    /\ jobs' = IF jobs[id] = Null THEN jobs
               ELSE [jobs EXCEPT ![id] = ApplyUpdate(jobs[id], [isActive |-> FALSE])]
    /\ apiOps' = apiOps + 1
    /\ UNCHANGED <<clock, nextId, ticks, lastFired, calcExpr, calcOut, audit, request, selection, peerFired>>

remove(id) ==
    /\ apiOps < MaxApiOps
    /\ id < nextId
    /\ jobs' = [jobs EXCEPT ![id] = Null]
    /\ apiOps' = apiOps + 1
    /\ UNCHANGED <<clock, nextId, ticks, lastFired, calcExpr, calcOut, audit, request, selection, peerFired>>

----------------------------------------------------------------------------
(* SchedulerService: one invocation of checkAndRunJobs per slot.  Its      *)
(* awaits (findMany, execute, update) end the steps.  A slot records, by   *)
(* index into the fetched rows, which jobs it has dispatched, which        *)
(* executors failed and which write-backs the store applied.               *)

Slots == 1..MaxInFlight

IdleTick ==
    [pc |-> "idle", fetched |-> <<>>, now |-> NoTime, i |-> 0,
     startTime |-> NoTime, nextRun |-> NoTime, dispatched |-> {},
     failed |-> {}, written |-> {}, storedAtInvoke |-> "none"]

\* what the table holds for a job at the instant its executor is invoked
StoredState(table, id) ==
    IF table[id] = Null THEN "absent"
    ELSE IF table[id].isActive THEN "active" ELSE "inactive"

\* index of the first job at or after `from` for which shouldJobRun holds,
\* or 0 when the for loop runs to its end
nextDue(fetched, now, from) ==
    LET due == {k \in from..Len(fetched) : shouldJobRun(fetched[k], now)}
    IN IF due = {} THEN 0 ELSE CHOOSE k \in due : \A m \in due : k <= m

\* a loop that returns after the first job it has dispatched
runLoop_firstOnly(t, from, table) ==
    LET k == IF t.dispatched = {} THEN nextDue(t.fetched, t.now, from) ELSE 0
    IN IF k = 0
        THEN [t EXCEPT !.pc = "done", !.i = Len(t.fetched) + 1,
                       !.startTime = NoTime, !.nextRun = NoTime,
                       !.storedAtInvoke = "none"]
        ELSE [t EXCEPT !.pc = "executing", !.i = k, !.startTime = clock,
                       !.nextRun = NoTime,
                       !.dispatched = t.dispatched \cup {k},
                       !.storedAtInvoke = StoredState(table, t.fetched[k].id)]

\* the for loop of checkAndRunJobs from index `from` up to its next await:
\* executeJob of the next due job takes startTime and invokes the executor
runLoop(t, from, table) ==
    LET k == nextDue(t.fetched, t.now, from)
    IN IF k = 0
        THEN [t EXCEPT !.pc = "done", !.i = Len(t.fetched) + 1,
                       !.startTime = NoTime, !.nextRun = NoTime,
                       !.storedAtInvoke = "none"]
        ELSE [t EXCEPT !.pc = "executing", !.i = k, !.startTime = clock,
                       !.nextRun = NoTime,
                       !.dispatched = t.dispatched \cup {k},
                       !.storedAtInvoke = StoredState(table, t.fetched[k].id)]

\* the row of the job whose executeJob is running in slot p
Current(p) == ticks[p].fetched[ticks[p].i]

FreeSlots == {p \in Slots : ticks[p].pc = "idle"}

\* cron.schedule('* * * * *', ...): node-cron calls the handler at each
\* minute boundary; the handler starts with the findMany request
TickStart(p) ==
    /\ clock % MinuteMs = 0
    /\ lastFired # clock
    /\ p \in FreeSlots /\ \A q \in FreeSlots : p <= q
    /\ ticks' = [ticks EXCEPT ![p] = [IdleTick EXCEPT !.pc = "fetching"]]
    /\ lastFired' = clock
    /\ UNCHANGED <<clock, jobs, nextId, apiOps, calcExpr, calcOut, audit, request, selection, peerFired>>

\* the job ids other invocations hold between their fetch and their end
InFlightElsewhere(p) ==
    UNION {{ticks[q].fetched[k].id :
                k \in {n \in 1..Len(ticks[q].fetched) : n >= ticks[q].i}} :
            q \in {r \in Slots \ {p} : ticks[r].pc # "idle"}}

\* a fetch that leaves out the rows another invocation holds, as a claim
\* on the job row would make it
FetchDone_skipsInFlight(p) ==
    /\ ticks[p].pc = "fetching"
    /\ \E order \in Orderings(ActiveIds \ InFlightElsewhere(p)) :
        LET rows == [k \in 1..Cardinality(ActiveIds \ InFlightElsewhere(p)) |->
                        Fetched(order[k])]
            t == [ticks[p] EXCEPT !.fetched = rows, !.now = clock]
        IN ticks' = [ticks EXCEPT ![p] = runLoop(t, 1, jobs)]
    /\ UNCHANGED <<clock, jobs, nextId, lastFired, apiOps, calcExpr, calcOut, audit, request, selection, peerFired>>

\* findMany resolves: `now` is taken and the loop runs to its first await
FetchDone(p) ==
    /\ ticks[p].pc = "fetching"
    /\ \E order \in Orderings(ActiveIds) :
        LET rows == [k \in 1..Cardinality(ActiveIds) |-> Fetched(order[k])]
            t == [ticks[p] EXCEPT !.fetched = rows, !.now = clock]
        IN ticks' = [ticks EXCEPT ![p] = runLoop(t, 1, jobs)]
    /\ UNCHANGED <<clock, jobs, nextId, lastFired, apiOps, calcExpr, calcOut, audit, request, selection, peerFired>>

\* findMany rejects outside any try block: the rejection leaves the handler,
\* which never reaches its end
FetchFail_unhandled(p) ==
    /\ ticks[p].pc = "fetching"
    /\ ticks' = [ticks EXCEPT ![p] = [ticks[p] EXCEPT !.pc = "crashed"]]
    /\ UNCHANGED <<clock, jobs, nextId, lastFired, apiOps, calcExpr, calcOut, audit, request, selection, peerFired>>

\* findMany rejects: the catch of checkAndRunJobs logs and the handler ends
FetchFail(p) ==
    /\ ticks[p].pc = "fetching"
    /\ ticks' = [ticks EXCEPT ![p] = [ticks[p] EXCEPT !.pc = "done"]]
    /\ UNCHANGED <<clock, jobs, nextId, lastFired, apiOps, calcExpr, calcOut, audit, request, selection, peerFired>>

\* EmailJob.execute resolves, not earlier than its delay; executeJob
\* computes nextRun and sends the update
ExecSucceed(p) ==
    /\ ticks[p].pc = "executing"
    /\ clock >= ticks[p].startTime + ExecDelayMs
    /\ ticks' = [ticks EXCEPT ![p] =
            [ticks[p] EXCEPT !.pc = "updating",
                !.nextRun = calculateNextRun(ticks[p].fetched[ticks[p].i].schedule, clock)]]
    /\ UNCHANGED <<clock, jobs, nextId, lastFired, apiOps, calcExpr, calcOut, audit, request, selection, peerFired>>

\* the executor rejects and the error leaves executeJob: the catch of
\* checkAndRunJobs ends the loop
ExecFail_abortsTick(p) ==
    /\ ticks[p].pc = "executing"
    /\ ticks' = [ticks EXCEPT ![p] =
            [ticks[p] EXCEPT !.pc = "done", !.failed = @ \cup {ticks[p].i},
                             !.i = Len(ticks[p].fetched) + 1,
                             !.startTime = NoTime, !.storedAtInvoke = "none"]]
    /\ UNCHANGED <<clock, jobs, nextId, lastFired, apiOps, calcExpr, calcOut, audit, request, selection, peerFired>>

\* the executor rejects: the catch of executeJob logs, the loop goes on
ExecFail(p) ==
    /\ ticks[p].pc = "executing"
    /\ LET t == [ticks[p] EXCEPT !.failed = @ \cup {ticks[p].i}]
       IN ticks' = [ticks EXCEPT ![p] = runLoop(t, t.i + 1, jobs)]
    /\ UNCHANGED <<clock, jobs, nextId, lastFired, apiOps, calcExpr, calcOut, audit, request, selection, peerFired>>

\* a write-back whose failure on a missing row ends the loop
WriteBack_missingRowAborts(p) ==
    /\ ticks[p].pc = "updating"
    /\ LET id == Current(p).id
           table == IF jobs[id] = Null THEN jobs
                    ELSE [jobs EXCEPT ![id] = ApplyUpdate(jobs[id],
                            [lastRun |-> ticks[p].startTime,
                             nextRun |-> ticks[p].nextRun])]
           t == IF jobs[id] = Null THEN ticks[p]
                ELSE [ticks[p] EXCEPT !.written = @ \cup {ticks[p].i}]
       IN /\ jobs' = table
          /\ ticks' = [ticks EXCEPT ![p] =
                IF jobs[id] = Null
                    THEN [t EXCEPT !.pc = "done", !.i = Len(t.fetched) + 1,
                                   !.startTime = NoTime, !.nextRun = NoTime,
                                   !.storedAtInvoke = "none"]
                    ELSE runLoop(t, t.i + 1, table)]
    /\ UNCHANGED <<clock, nextId, lastFired, apiOps, calcExpr, calcOut, audit, request, selection, peerFired>>

\* a write-back that stores lastRun alone
WriteBack_lastRunOnly(p) ==
    /\ ticks[p].pc = "updating"
    /\ LET id == Current(p).id
           table == IF jobs[id] = Null THEN jobs
                    ELSE [jobs EXCEPT ![id] = ApplyUpdate(jobs[id],
                            [lastRun |-> ticks[p].startTime])]
           t == IF jobs[id] = Null THEN ticks[p]
                ELSE [ticks[p] EXCEPT !.written = @ \cup {ticks[p].i}]
       IN /\ jobs' = table
          /\ ticks' = [ticks EXCEPT ![p] = runLoop(t, t.i + 1, table)]
    /\ UNCHANGED <<clock, nextId, lastFired, apiOps, calcExpr, calcOut, audit, request, selection, peerFired>>

\* a write-back that saves the fetched snapshot with the new timestamps
WriteBack_wholeSnapshot(p) ==
    /\ ticks[p].pc = "updating"
    /\ LET id == Current(p).id
           table == IF jobs[id] = Null THEN jobs
                    ELSE [jobs EXCEPT ![id] = ApplyUpdate(jobs[id],
                            [name |-> Current(p).name,
                             schedule |-> Current(p).schedule,
                             lastRun |-> ticks[p].startTime,
                             nextRun |-> ticks[p].nextRun])]
           t == IF jobs[id] = Null THEN ticks[p]
                ELSE [ticks[p] EXCEPT !.written = @ \cup {ticks[p].i}]
       IN /\ jobs' = table
          /\ ticks' = [ticks EXCEPT ![p] = runLoop(t, t.i + 1, table)]
    /\ UNCHANGED <<clock, nextId, lastFired, apiOps, calcExpr, calcOut, audit, request, selection, peerFired>>

\* a write-back by upsert: a row that is missing is created from the
\* fetched snapshot
WriteBack_upsert(p) ==
    /\ ticks[p].pc = "updating"
    /\ LET id == Current(p).id
           row == IF jobs[id] = Null
                    THEN NewRow([name |-> Current(p).name,
                                 description |-> NullText,
                                 schedule |-> Current(p).schedule,
                                 isActive |-> TRUE])
                    ELSE jobs[id]
           table == [jobs EXCEPT ![id] = ApplyUpdate(row,
                            [lastRun |-> ticks[p].startTime,
                             nextRun |-> ticks[p].nextRun])]
           t == [ticks[p] EXCEPT !.written = @ \cup {ticks[p].i}]
       IN /\ jobs' = table
          /\ ticks' = [ticks EXCEPT ![p] = runLoop(t, t.i + 1, table)]
    /\ UNCHANGED <<clock, nextId, lastFired, apiOps, calcExpr, calcOut, audit, request, selection, peerFired>>

\* prisma.job.update({where: {id}, data: {lastRun, nextRun}}) is served; on
\* a missing row it rejects and the catch of executeJob logs
WriteBack(p) ==
    /\ ticks[p].pc = "updating"
    /\ LET id == Current(p).id
           table == IF jobs[id] = Null THEN jobs
                    ELSE [jobs EXCEPT ![id] = ApplyUpdate(jobs[id],
                            [lastRun |-> ticks[p].startTime,
                             nextRun |-> ticks[p].nextRun])]
           t == IF jobs[id] = Null THEN ticks[p]
                ELSE [ticks[p] EXCEPT !.written = @ \cup {ticks[p].i}]
       IN /\ jobs' = table
          /\ ticks' = [ticks EXCEPT ![p] = runLoop(t, t.i + 1, table)]
    /\ UNCHANGED <<clock, nextId, lastFired, apiOps, calcExpr, calcOut, audit, request, selection, peerFired>>

\* the update rejects because the store cannot be reached
WriteFail(p) ==
    /\ ticks[p].pc = "updating"
    /\ ticks' = [ticks EXCEPT ![p] = runLoop(ticks[p], ticks[p].i + 1, jobs)]
    /\ UNCHANGED <<clock, jobs, nextId, lastFired, apiOps, calcExpr, calcOut, audit, request, selection, peerFired>>

\* the promise of checkAndRunJobs resolves and the handler returns
TickEnd(p) ==
    /\ ticks[p].pc = "done"
    /\ ticks' = [ticks EXCEPT ![p] = IdleTick]
    /\ UNCHANGED <<clock, jobs, nextId, lastFired, apiOps, calcExpr, calcOut, audit, request, selection, peerFired>>

----------------------------------------------------------------------------
(* The wall clock *)

\* the service is observed from 08:59:00 of day 0 on
StartTimes == {8 * HourMs + 59 * MinuteMs}

InHorizon(t) ==
    \E s \in StartTimes :
        s <= t /\ t <= s + MaxMinutes * MinuteMs + MaxOffsetSteps * ExecDelayMs

nextMinute(t) == (t \div MinuteMs + 1) * MinuteMs

\* time passes, to the next clock reading explored; node-cron's timer is
\* not starved: at a minute boundary the handler is called first
Advance ==
    /\ ~(clock % MinuteMs = 0 /\ lastFired # clock /\ FreeSlots # {})
    /\ \E t \in {clock + ExecDelayMs, nextMinute(clock)} :
        /\ t <= nextMinute(clock)
        /\ t = nextMinute(clock) \/ t % MinuteMs <= MaxOffsetSteps * ExecDelayMs
        /\ InHorizon(t)
        /\ clock' = t
    /\ UNCHANGED <<jobs, nextId, ticks, lastFired, apiOps, calcExpr, calcOut, audit, request, selection, peerFired>>

----------------------------------------------------------------------------
(* The service *)

Init ==
    /\ clock \in StartTimes
    /\ jobs = [id \in JobIds |-> Null]
    /\ nextId = 1
    /\ ticks = [p \in Slots |-> IdleTick]
    /\ lastFired = NoTime
    /\ apiOps = 0
    /\ calcExpr = <<>>
    /\ calcOut = NoTime
    /\ audit = FALSE
    /\ request = NoRequest
    /\ selection = NoSelection
    /\ peerFired = NoTime

Next ==
    \/ \E dto \in CreateJobDtos : create(dto)
    \/ \E id \in JobIds, dto \in UpdateJobDtos : update(id, dto)
    \/ \E id \in JobIds : remove(id)
    \/ \E p \in Slots : TickStart(p)
    \/ \E p \in Slots : FetchDone(p)
    \/ \E p \in Slots : FetchFail(p)
    \/ \E p \in Slots : ExecSucceed(p)
    \/ \E p \in Slots : ExecFail(p)
    \/ \E p \in Slots : WriteBack(p)
    \/ \E p \in Slots : WriteFail(p)
    \/ \E p \in Slots : TickEnd(p)
    \/ Advance

Spec == Init /\ [][Next]_vars

\* what the event loop guarantees: a timer that is due fires, a settled
\* promise resumes its awaiter, the store answers a request one way or the
\* other, and time passes.  Nothing obliges an executor to settle.
LoopFairness ==
    /\ WF_vars(Advance)
    /\ \A p \in Slots :
        /\ WF_vars(TickStart(p))
        /\ WF_vars(FetchDone(p) \/ FetchFail(p))
        /\ WF_vars(WriteBack(p) \/ WriteFail(p))
        /\ WF_vars(TickEnd(p))

\* every executor invocation settles
ExecutorFairness == \A p \in Slots : WF_vars(ExecSucceed(p) \/ ExecFail(p))

\* the service with one job already created, by any accepted request, and
\* one more API request to come
InitRunning ==
    /\ audit = FALSE
    /\ request = NoRequest
    /\ selection = NoSelection
    /\ peerFired = NoTime
    /\ clock \in StartTimes
    /\ \E dto \in CreateJobDtos :
        jobs = [id \in JobIds |-> IF id = 1 THEN NewRow(createData(dto)) ELSE Null]
    /\ nextId = 2
    /\ ticks = [p \in Slots |-> IdleTick]
    /\ lastFired = NoTime
    /\ apiOps = MaxApiOps - 1
    /\ calcExpr = <<>>
    /\ calcOut = NoTime

SpecLoop == InitRunning /\ [][Next]_vars /\ LoopFairness

SpecFair == InitRunning /\ [][Next]_vars /\ LoopFairness /\ ExecutorFairness

\* the same service with the bookkeeping columns createdAt and updatedAt
\* observed
InitAudit ==
    /\ audit = TRUE
    /\ request = NoRequest
    /\ selection = NoSelection
    /\ peerFired = NoTime
    /\ clock \in StartTimes
    /\ \E dto \in CreateJobDtos :
        jobs = [id \in JobIds |-> IF id = 1 THEN NewRow(createData(dto)) ELSE Null]
    /\ nextId = 2
    /\ ticks = [p \in Slots |-> IdleTick]
    /\ lastFired = NoTime
    /\ apiOps = MaxApiOps - 1
    /\ calcExpr = <<>>
    /\ calcOut = NoTime

SpecAudit == InitAudit /\ [][Next]_vars

\* Horizontal scaling as SCALABILITY.md describes it: a second instance of
\* the service runs the same code against the same table.  Its node-cron
\* timer fires at the same minute boundaries and starts its own invocation
\* of checkAndRunJobs.
PeerTickStart(p) ==
    /\ clock % MinuteMs = 0
    /\ peerFired # clock
    /\ p \in FreeSlots /\ \A q \in FreeSlots : p <= q
    /\ ticks' = [ticks EXCEPT ![p] = [IdleTick EXCEPT !.pc = "fetching"]]
    /\ peerFired' = clock
    /\ UNCHANGED <<clock, jobs, nextId, lastFired, apiOps, calcExpr, calcOut, audit, request, selection>>

\* two instances started on a store that holds one job
InitCluster ==
    /\ audit = FALSE
    /\ request = NoRequest
    /\ selection = NoSelection
    /\ peerFired = NoTime
    /\ clock \in StartTimes
    /\ \E dto \in CreateJobDtos :
        jobs = [id \in JobIds |-> IF id = 1 THEN NewRow(createData(dto)) ELSE Null]
    /\ nextId = 2
    /\ ticks = [p \in Slots |-> IdleTick]
    /\ lastFired = NoTime
    /\ apiOps = MaxApiOps
    /\ calcExpr = <<>>
    /\ calcOut = NoTime

\* the schedulers of the two instances; no API request is served meanwhile
NextCluster ==
    \/ \E p \in Slots : TickStart(p)
    \/ \E p \in Slots : PeerTickStart(p)
    \/ \E p \in Slots : FetchDone(p)
    \/ \E p \in Slots : FetchFail(p)
    \/ \E p \in Slots : ExecSucceed(p)
    \/ \E p \in Slots : ExecFail(p)
    \/ \E p \in Slots : WriteBack(p)
    \/ \E p \in Slots : WriteFail(p)
    \/ \E p \in Slots : TickEnd(p)
    \/ Advance

SpecCluster == InitCluster /\ [][NextCluster]_vars

----------------------------------------------------------------------------
(* The REST interface: JobsController behind the global ValidationPipe.    *)
(* A field of a request body is <<>> when the JSON body lacks the key and  *)
(* <<v>> when it supplies the value v; the values enumerated have the JSON *)
(* type the DTO declares for the key.                                      *)

Opt(S) == {<<>>} \cup {<<v>> : v \in S}

ApiNames == {"send email", "report"}
Descriptions == {"", "weekly digest"}
ApiSchedules == {EveryMinute, Daily9AM}

\* the properties CreateJobDto and UpdateJobDto declare
DtoKeys == {"name", "description", "schedule", "isActive"}

\* request bodies; "priority" is a key no DTO declares
Bodies ==
    [name : Opt(ApiNames), description : Opt(Descriptions),
     schedule : Opt(ApiSchedules), isActive : Opt(BOOLEAN),
     priority : Opt({"high"})]

Supplied(body) == {k \in DOMAIN body : body[k] # <<>>}

\* a pipe that only refuses the keys the DTO does not declare
validCreate_whitelistOnly(body) == Supplied(body) \subseteq DtoKeys

\* ValidationPipe over CreateJobDto: forbidNonWhitelisted refuses a key the
\* DTO does not declare, @IsString refuses an undefined name or schedule,
\* @IsOptional lets description and isActive be undefined
validCreate(body) ==
    /\ Supplied(body) \subseteq DtoKeys
    /\ "name" \in Supplied(body)
    /\ "schedule" \in Supplied(body)

\* ValidationPipe over UpdateJobDto: every property is @IsOptional
validUpdate(body) == Supplied(body) \subseteq DtoKeys

\* transform: the DTO instance holds the keys the body supplied
toDto(body) == [k \in Supplied(body) |-> body[k][1]]

\* the pipe throws BadRequestException (400) and the handler is not called
badRequest ==
    /\ apiOps < MaxApiOps
    /\ apiOps' = apiOps + 1
    /\ UNCHANGED <<clock, jobs, nextId, ticks, lastFired, calcExpr, calcOut, audit, request, selection, peerFired>>

\* POST /jobs
postJobs(body) ==
    /\ apiOps < MaxApiOps
    /\ IF validCreate(body) THEN create(toDto(body)) ELSE badRequest

\* PATCH /jobs/:id
patchJob(id, body) ==
    /\ apiOps < MaxApiOps
    /\ IF validUpdate(body) THEN update(id, toDto(body)) ELSE badRequest

\* DELETE /jobs/:id
deleteJob(id) == remove(id)

\* JobsService.findOne: findUnique({where: {id}}), the row or null
findOne(id) == IF id \in DOMAIN jobs THEN jobs[id] ELSE Null

\* JobsService.findAll: findMany(), given by the ids of the rows returned
findAll == {id \in JobIds : jobs[id] # Null}

RequestIds == 1..(MaxJobs + 1)

\* GET /jobs/:id
getJob(id) ==
    /\ apiOps < MaxApiOps
    /\ apiOps' = apiOps + 1
    /\ UNCHANGED <<clock, jobs, nextId, ticks, lastFired, calcExpr, calcOut, audit, request, selection, peerFired>>

\* GET /jobs
getJobs ==
    /\ apiOps < MaxApiOps
    /\ apiOps' = apiOps + 1
    /\ UNCHANGED <<clock, jobs, nextId, ticks, lastFired, calcExpr, calcOut, audit, request, selection, peerFired>>

\* the requests of the isolated calls; GET with id 0 is GET /jobs
Requests ==
    {[verb |-> "POST", id |-> 0, body |-> b] : b \in Bodies}
        \cup {[verb |-> "PATCH", id |-> i, body |-> b] : i \in JobIds, b \in Bodies}
        \cup {[verb |-> "DELETE", id |-> i, body |-> EmptyBody] : i \in JobIds}
        \cup {[verb |-> "GET", id |-> i, body |-> EmptyBody] : i \in RequestIds \cup {0}}

\* the row of a job created at instant t with the columns of `data` and,
\* when `ran`, executed by the tick of t and written back ExecDelayMs later
StoredRow(data, t, ran) ==
    [name |-> data.name, description |-> data.description,
     schedule |-> data.schedule, isActive |-> data.isActive,
     lastRun |-> IF ran THEN t ELSE NoTime,
     nextRun |-> IF ran THEN calculateNextRun(data.schedule, t + ExecDelayMs)
                 ELSE NoTime,
     createdAt |-> t,
     updatedAt |-> IF ran THEN t + ExecDelayMs ELSE t]

\* an isolated call: the bookkeeping columns are observed, job 1 was
\* created at the start time, possibly run once since, and one request is
\* to be served
InitApi ==
    /\ audit = TRUE
    /\ request \in Requests
    /\ selection = NoSelection
    /\ peerFired = NoTime
    /\ \E t \in StartTimes, ran \in BOOLEAN,
          data \in [name : ApiNames, description : {NullText, "weekly digest"},
                    schedule : ApiSchedules, isActive : BOOLEAN] :
        /\ clock = t + ExecDelayMs
        /\ lastFired = t
        /\ ran => data.isActive
        /\ jobs = [id \in JobIds |->
                    IF id = 1 THEN StoredRow(data, t, ran) ELSE Null]
    /\ nextId = 2
    /\ ticks = [p \in Slots |-> IdleTick]
    /\ apiOps = MaxApiOps - 1
    /\ calcExpr = <<>>
    /\ calcOut = NoTime

NextApi ==
    \/ request.verb = "POST" /\ postJobs(request.body)
    \/ request.verb = "PATCH" /\ patchJob(request.id, request.body)
    \/ request.verb = "DELETE" /\ deleteJob(request.id)
    \/ request.verb = "GET" /\ request.id # 0 /\ getJob(request.id)
    \/ request.verb = "GET" /\ request.id = 0 /\ getJobs
    \/ Advance

SpecApi == InitApi /\ [][NextApi]_vars

----------------------------------------------------------------------------
(* calculateNextRun in isolation: one evaluation per expression and clock  *)
(* reading                                                                 *)

CalcExprs == {EveryMinute, EveryHour, DailyMidnight, Daily9AM, HalfPast}

CalcInstants ==
    {d * DayMs + h * HourMs + m * MinuteMs + ms :
        d \in 0..(CalcDays - 1), h \in 0..23, m \in {0, 29, 30, 59},
        ms \in {0, 1, ExecDelayMs, MinuteMs - 1}}

InitCalc ==
    /\ clock \in CalcInstants
    /\ jobs = [id \in JobIds |-> Null]
    /\ nextId = 1
    /\ ticks = [p \in Slots |-> IdleTick]
    /\ lastFired = NoTime
    /\ apiOps = 0
    /\ calcExpr \in CalcExprs
    /\ calcOut = NoTime
    /\ audit = FALSE
    /\ request = NoRequest
    /\ selection = NoSelection
    /\ peerFired = NoTime

Calc ==
    /\ calcExpr # <<>>
    /\ calcOut = NoTime
    /\ calcOut' = calculateNextRun(calcExpr, clock)
    /\ UNCHANGED <<clock, jobs, nextId, ticks, lastFired, apiOps, calcExpr, audit, request, selection, peerFired>>

NextCalc == Calc

SpecCalc == InitCalc /\ [][NextCalc]_vars

----------------------------------------------------------------------------
(* JobFactory.  A job name is a string, here a sequence of characters, so  *)
(* that toLowerCase and includes are computed and not assumed.             *)

Letters ==
    <<"a", "b", "c", "d", "e", "f", "g", "h", "i", "j", "k", "l", "m",
      "n", "o", "p", "q", "r", "s", "t", "u", "v", "w", "x", "y", "z">>
Capitals ==
    <<"A", "B", "C", "D", "E", "F", "G", "H", "I", "J", "K", "L", "M",
      "N", "O", "P", "Q", "R", "S", "T", "U", "V", "W", "X", "Y", "Z">>

\* String.prototype.toLowerCase
toLowerCase(str) ==
    [i \in 1..Len(str) |->
        IF \E n \in 1..26 : Capitals[n] = str[i]
            THEN Letters[CHOOSE n \in 1..26 : Capitals[n] = str[i]]
            ELSE str[i]]

\* String.prototype.includes
includes(str, word) ==
    \E i \in 1..(Len(str) - Len(word) + 1) :
        SubSeq(str, i, i + Len(word) - 1) = word

email == <<"e", "m", "a", "i", "l">>
notification == <<"n", "o", "t", "i", "f", "i", "c", "a", "t", "i", "o", "n">>
send == <<"s", "e", "n", "d">>

\* a factory that knows 'email' alone and throws on every other name
createJob_hardFail(jobName) ==
    IF includes(toLowerCase(jobName), email) THEN "EmailJob" ELSE "Error"

\* JobFactory.createJob as imported by the scheduler: the executor it
\* returns, "Error" standing for a throw
createJob(jobName) ==
    LET name == toLowerCase(jobName)
    IN IF includes(name, email) \/ includes(name, notification) \/ includes(name, send)
           THEN "EmailJob"
           ELSE "EmailJob"

\* the pieces job names are put together from: the three words in several
\* letter cases, halves of them, and words the factory does not know
NameParts ==
    {<<>>, email, <<"E", "m", "a", "i", "l">>, <<"E", "M", "A", "I", "L">>,
     <<"e", "M", "a", "I">>, <<"l">>, <<"L">>,
     send, <<"S", "E", "N", "D">>, <<"s", "e", "n">>, <<"d">>,
     notification, <<"N", "o", "t", "i", "f", "i", "c", "a", "t", "i", "o", "n">>,
     <<"n", "o", "t", "i", "f", "y">>,
     <<"r", "e", "p", "o", "r", "t">>, <<"B", "a", "c", "k", "u", "p">>,
     <<" ">>, <<"-">>}

FactoryNames == {a \o b : a \in NameParts, b \in NameParts}

\* executeJob line 84: the executor is selected; a throw goes to the catch
\* of executeJob, which logs, and neither execute nor update is reached
Select ==
    /\ selection.pc = "select"
    /\ LET executor == createJob(selection.jobName)
       IN selection' = [selection EXCEPT !.executor = executor,
                            !.pc = IF executor = "Error" THEN "caught" ELSE "execute"]
    /\ UNCHANGED <<clock, jobs, nextId, ticks, lastFired, apiOps, calcExpr, calcOut, audit, request, peerFired>>

\* executeJob line 85: EmailJob.execute resolves after its delay
Execute ==
    /\ selection.pc = "execute"
    /\ selection.executor = "EmailJob"
    /\ clock' = clock + ExecDelayMs
    /\ selection' = [selection EXCEPT !.pc = "update"]
    /\ UNCHANGED <<jobs, nextId, ticks, lastFired, apiOps, calcExpr, calcOut, audit, request, peerFired>>

\* executeJob lines 86-94: lastRun and nextRun of the job are stored
Update ==
    /\ selection.pc = "update"
    /\ jobs' = [jobs EXCEPT ![1] = ApplyUpdate(jobs[1],
                    [lastRun |-> clock - ExecDelayMs,
                     nextRun |-> calculateNextRun(jobs[1].schedule, clock)])]
    /\ selection' = [selection EXCEPT !.pc = "done"]
    /\ UNCHANGED <<clock, nextId, ticks, lastFired, apiOps, calcExpr, calcOut, audit, request, peerFired>>

\* one never-run job of any name is stored and executeJob is entered for it
InitFactory ==
    /\ audit = FALSE
    /\ request = NoRequest
    /\ peerFired = NoTime
    /\ selection \in [jobName : FactoryNames, executor : {"none"}, pc : {"select"}]
    /\ clock \in StartTimes
    /\ jobs = [id \in JobIds |->
                IF id = 1 THEN NewRow([name |-> selection.jobName,
                                       description |-> NullText,
                                       schedule |-> EveryMinute,
                                       isActive |-> TRUE])
                ELSE Null]
    /\ nextId = 2
    /\ ticks = [p \in Slots |-> IdleTick]
    /\ lastFired = NoTime
    /\ apiOps = 0
    /\ calcExpr = <<>>
    /\ calcOut = NoTime

NextFactory == Select \/ Execute \/ Update

SpecFactory == InitFactory /\ [][NextFactory]_vars

----------------------------------------------------------------------------
(* Cron semantics the claims are measured against: an expression matches   *)
(* an instant when every field matches the instant's component, at minute  *)
(* resolution; day 0 is taken to be Thursday 1 January.                    *)

dayOfMonth(t) == t \div DayMs + 1
monthOf(t) == 1
dayOfWeek(t) == (t \div DayMs + 4) % 7

FieldMatches(f, v) == f = Star \/ f = v

Matches(e, t) ==
    /\ cronValidate(e)
    /\ FieldMatches(e[1], getMinutes(t))
    /\ FieldMatches(e[2], getHours(t))
    /\ FieldMatches(e[4], monthOf(t))
    /\ IF e[3] # Star /\ e[5] # Star
        THEN e[3] = dayOfMonth(t) \/ e[5] % 7 = dayOfWeek(t)
        ELSE FieldMatches(e[3], dayOfMonth(t))
                /\ (e[5] = Star \/ e[5] % 7 = dayOfWeek(t))

SearchMinutes == 24 * 60

\* the earliest minute-aligned instant strictly after `after` that matches
\* e, searched one day ahead; NoTime when there is none
NextOccurrence(e, after) ==
    LET base == after \div MinuteMs
        S == {k \in 1..SearchMinutes : Matches(e, (base + k) * MinuteMs)}
    IN IF S = {} THEN NoTime
       ELSE (base + (CHOOSE k \in S : \A j \in S : k <= j)) * MinuteMs

\* the minute-aligned instants in (from, to]
AlignedIn(from, to) ==
    {m \in {k * MinuteMs : k \in (from \div MinuteMs)..(to \div MinuteMs)} :
        from < m /\ m <= to}

----------------------------------------------------------------------------
(* Claims *)

\* C1: a job that has run before is dispatched again only for a new
\* occurrence of its schedule: whenever the executor is invoked for a job
\* whose fetched lastRun is present, some instant matching its schedule lies
\* after that lastRun and not after the tick's `now`.
C1_OneDispatchPerOccurrence ==
    \A p \in Slots :
        (ticks[p].pc = "executing" /\ Current(p).lastRun # NoTime)
            => \E m \in AlignedIn(Current(p).lastRun, ticks[p].now) :
                    Matches(Current(p).schedule, m)

\* C2: the executor is never invoked for a job whose stored isActive is
\* false at the instant of the invocation.
C2_NeverInvokedWhileInactive ==
    \A p \in Slots :
        ticks[p].pc = "executing" => ticks[p].storedAtInvoke # "inactive"

\* the four-rule policy of the due-job selector
DuePolicy(row, now) ==
    IF ~row.isActive THEN FALSE
    ELSE IF row.lastRun = NoTime THEN TRUE
    ELSE IF row.nextRun # NoTime /\ now >= row.nextRun THEN TRUE
    ELSE FALSE

\* C3: for every stored job and the current instant, the due decision of
\* the scheduler equals the four-rule policy (inactive: not due; never run:
\* due; nextRun reached: due; otherwise not due).
C3_DueDecisionIsPolicy ==
    \A id \in JobIds :
        jobs[id] # Null => selectedAsDue(jobs[id], clock) = DuePolicy(jobs[id], clock)

\* C4: a job whose lastRun/nextRun were written back is not due within one
\* tick interval after that dispatch while the written nextRun is not
\* reached.
C4_NotDueAtFollowingTick ==
    \A id \in JobIds :
        (/\ jobs[id] # Null
         /\ jobs[id].lastRun # NoTime /\ jobs[id].nextRun # NoTime
         /\ jobs[id].lastRun < clock /\ clock <= jobs[id].lastRun + MinuteMs
         /\ clock < jobs[id].nextRun)
            => ~selectedAsDue(jobs[id], clock)

\* the indices of the fetched rows the for loop of slot p has passed
Passed(p) == {k \in 1..Len(ticks[p].fetched) : k <= ticks[p].i}

\* C5: every fetched (hence active) job whose lastRun is absent is
\* dispatched by the tick that fetched it, whatever its schedule.
C5_NeverRunJobIsDispatched ==
    \A p \in Slots : \A k \in Passed(p) :
        ticks[p].fetched[k].lastRun = NoTime => k \in ticks[p].dispatched

\* a tick has ended after dispatching two never-run jobs, one of them with
\* a schedule that is no cron expression and one that waits for 09:00
C5_Witness ==
    \E p \in Slots :
        /\ ticks[p].pc = "done"
        /\ \E a, b \in ticks[p].dispatched :
            /\ ticks[p].fetched[a].lastRun = NoTime
            /\ ticks[p].fetched[a].schedule = BadCron
            /\ ticks[p].fetched[b].lastRun = NoTime
            /\ ticks[p].fetched[b].schedule = Daily9AM

\* C6: the pending write-back of a successful execution carries
\* nextRun = the next occurrence of the schedule after startTime (for
\* '* * * * *' dispatched at a minute boundary T: T + 1 minute).
C6_WriteBackFromStartTime ==
    \A p \in Slots :
        (ticks[p].pc = "updating" /\ cronValidate(Current(p).schedule))
            => ticks[p].nextRun = NextOccurrence(Current(p).schedule, ticks[p].startTime)

\* C7: the result of calculateNextRun evaluated at T is after T, matches
\* the expression, and no minute-aligned instant strictly between T and the
\* result matches it.
C7_NextRunIsNextOccurrence ==
    calcOut # NoTime =>
        /\ calcOut > clock
        /\ Matches(calcExpr, calcOut)
        /\ \A m \in AlignedIn(clock, calcOut) : m < calcOut => ~Matches(calcExpr, m)

\* C8: for '0 9 * * *' the result is 09:00 of the day of evaluation when
\* the time of day is before 09:00 and 09:00 of the next day otherwise,
\* which is the next occurrence of the expression.
C8_Daily9AM ==
    (calcExpr = Daily9AM /\ calcOut # NoTime) =>
        /\ calcOut = IF clock % DayMs < 9 * HourMs
                        THEN startOfDay(clock) + 9 * HourMs
                        ELSE startOfDay(clock) + DayMs + 9 * HourMs
        /\ calcOut = NextOccurrence(Daily9AM, clock)

\* evaluated at 10:00 of day 0, the result is 09:00 of day 1
C8_Witness ==
    /\ calcExpr = Daily9AM
    /\ clock = 10 * HourMs
    /\ calcOut = DayMs + 9 * HourMs

\* C9: every stored job with nextRun present has nextRun equal to the
\* earliest instant matching its stored schedule strictly after its lastRun.
C9_NextRunInvariant ==
    \A id \in JobIds :
        (jobs[id] # Null /\ jobs[id].nextRun # NoTime /\ cronValidate(jobs[id].schedule))
            => jobs[id].nextRun = NextOccurrence(jobs[id].schedule, jobs[id].lastRun)

\* C10: a step in which the executor of a job fails writes nothing to the
\* store, and the job, if still stored and active, is due at the next
\* minute boundary.
C10_FailedJobStaysDue ==
    [][\A p \in Slots :
        ExecFail(p) =>
            /\ jobs' = jobs
            /\ LET id == Current(p).id
               IN (jobs'[id] # Null /\ jobs'[id].isActive)
                    => shouldJobRun(jobs'[id], nextMinute(clock))]_vars

\* the fetched rows of slot p for which shouldJobRun held at the tick's now
Due(p) == {k \in 1..Len(ticks[p].fetched) :
                shouldJobRun(ticks[p].fetched[k], ticks[p].now)}

\* the dispatches of slot p that have ended
Ended(p) == {k \in ticks[p].dispatched :
                k < ticks[p].i \/ ticks[p].pc = "done"}

\* C11: in a tick in which an executor has failed, every due job the loop
\* has passed has been dispatched, and no ended dispatch is both failed and
\* written back: the failure of one job stops neither the dispatch nor the
\* write-back of another, in whatever order the rows were fetched.
C11_FailureDoesNotBlockOthers ==
    \A p \in Slots :
        ticks[p].failed # {} =>
            /\ \A k \in Passed(p) \cap Due(p) : k \in ticks[p].dispatched
            /\ ticks[p].written \cap ticks[p].failed = {}
            /\ ticks[p].written \cup ticks[p].failed \subseteq ticks[p].dispatched

\* a tick has ended in which the executor of the first due job failed and
\* the second due job was executed and written back
C11_Witness ==
    \E p \in Slots :
        /\ ticks[p].pc = "done"
        /\ ticks[p].failed = {1}
        /\ ticks[p].written = {2}
        /\ jobs[ticks[p].fetched[2].id] # Null
        /\ jobs[ticks[p].fetched[2].id].lastRun # NoTime
        /\ jobs[ticks[p].fetched[1].id] # Null
        /\ jobs[ticks[p].fetched[1].id].lastRun = NoTime

\* C12: at no time are two dispatches of the same job id in flight
\* (executor running or write-back pending) in two invocations of the tick
\* handler.
C12_NoDuplicateInFlight ==
    \A p, q \in Slots :
        (/\ p # q
         /\ ticks[p].pc \in {"executing", "updating"}
         /\ ticks[q].pc \in {"executing", "updating"})
            => Current(p).id # Current(q).id

\* C13: while the executor of one job of a tick is running, every other
\* due job of that tick has had its executor invoked.
C13_SlowJobDoesNotDelayOthers ==
    \A p \in Slots :
        ticks[p].pc = "executing" => Due(p) \subseteq ticks[p].dispatched

TickError(p) ==
    \/ FetchFail(p)
    \/ ExecFail(p)
    \/ WriteFail(p)
    \/ WriteBack(p) /\ jobs[Current(p).id] = Null

\* C15: an error raised while a tick is processed is caught inside the
\* handler: the invocation goes on to its next dispatch or ends normally,
\* the other invocations and the timer are untouched, and (executors
\* settling) every invocation of the handler returns, so that the tick of
\* the next minute is run as well.
C15_ErrorsStayInsideTheTick ==
    /\ [][\A p \in Slots :
            TickError(p) =>
                /\ ticks'[p].pc \in {"executing", "done"}
                /\ \A q \in Slots \ {p} : ticks'[q] = ticks[q]
                /\ lastFired' = lastFired /\ clock' = clock]_vars
    /\ \A p \in Slots : (ticks[p].pc # "idle") ~> (ticks[p].pc = "idle")

\* the tick of the next minute is being run while an invocation in which an
\* executor failed is still at its end
C15_Witness ==
    \E p, q \in Slots :
        /\ ticks[p].pc = "done" /\ ticks[p].failed # {}
        /\ ticks[q].pc \in {"fetching", "executing"}
        /\ lastFired > ticks[p].now

\* job id is stored, active and due by lastRun absent or nextRun reached
DueStored(id) ==
    /\ jobs[id] # Null
    /\ jobs[id].isActive
    /\ jobs[id].lastRun = NoTime
            \/ (jobs[id].nextRun # NoTime /\ jobs[id].nextRun <= clock)

\* C16: with the timer firing and every executor settling, a job that is
\* due when a tick starts its fetch is eventually dispatched, unless it is
\* removed or deactivated first or the fetch of a tick fails.
C16_DueJobEventuallyDispatched ==
    \A id \in JobIds :
        (DueStored(id) /\ \E p \in Slots : ticks[p].pc = "fetching")
            ~> \/ \E p \in Slots : /\ ticks[p].pc \in {"executing", "updating"}
                                   /\ Current(p).id = id
               \/ jobs[id] = Null
               \/ ~jobs[id].isActive
               \/ \E p \in Slots : ticks[p].pc = "done" /\ ticks[p].now = NoTime

\* a tick that fetched two due jobs has reached the second one
C16_Witness ==
    \E p \in Slots :
        /\ ticks[p].pc = "executing"
        /\ ticks[p].i = 2
        /\ 1 \in ticks[p].dispatched
        /\ DueStored(Current(p).id)

\* a step that serves an API request
ApiStep == apiOps' = apiOps + 1

\* a step that serves an accepted PATCH of a stored job
PatchServed ==
    /\ request.verb = "PATCH"
    /\ ApiStep
    /\ validUpdate(request.body)
    /\ jobs[request.id] # Null

\* the supplied fields of the PATCH are stored and the others among name,
\* description, schedule and isActive are kept; no other row changes
PatchWritesSupplied ==
    /\ jobs'[request.id] # Null
    /\ \A k \in DtoKeys :
        jobs'[request.id][k] = IF k \in Supplied(request.body)
                                  THEN request.body[k][1]
                                  ELSE jobs[request.id][k]
    /\ \A id \in JobIds \ {request.id} : jobs'[id] = jobs[id]

\* no API step writes lastRun or nextRun of a row it keeps
ApiKeepsRunTimes ==
    ApiStep =>
        \A id \in JobIds :
            (jobs[id] # Null /\ jobs'[id] # Null) =>
                /\ jobs'[id].lastRun = jobs[id].lastRun
                /\ jobs'[id].nextRun = jobs[id].nextRun

\* C17 as stated: an update stores exactly the supplied fields among name,
\* description, schedule and isActive and leaves every other field of the
\* job unchanged, and no API step writes lastRun or nextRun.
C17_UpdateWritesOnlySuppliedFields ==
    [][/\ PatchServed =>
            /\ PatchWritesSupplied
            /\ \A k \in DOMAIN jobs[request.id] \ DtoKeys :
                    jobs'[request.id][k] = jobs[request.id][k]
       /\ ApiKeepsRunTimes]_vars

\* C17 amended: an update stores exactly the supplied fields among name,
\* description, schedule and isActive, sets updatedAt to the time of the
\* update and leaves every other field (lastRun, nextRun, createdAt)
\* unchanged, and no API step writes lastRun or nextRun.
C17_UpdateWritesSuppliedFieldsAndStamp ==
    [][/\ PatchServed =>
            /\ PatchWritesSupplied
            /\ jobs'[request.id].updatedAt = clock
            /\ \A k \in DOMAIN jobs[request.id] \ (DtoKeys \cup {"updatedAt"}) :
                    jobs'[request.id][k] = jobs[request.id][k]
       /\ ApiKeepsRunTimes]_vars

\* a PATCH supplying only the name has been served, a minute after the job
\* was created and run
C17_Witness ==
    /\ request.verb = "PATCH"
    /\ apiOps = MaxApiOps
    /\ Supplied(request.body) = {"name"}
    /\ jobs[request.id] # Null
    /\ jobs[request.id].name = request.body.name[1]
    /\ jobs[request.id].lastRun # NoTime
    /\ jobs[request.id].description = "weekly digest"
    /\ jobs[request.id].updatedAt > jobs[request.id].lastRun + ExecDelayMs

\* C18: an accepted POST stores one new row with the name and schedule of
\* the request, isActive as supplied or true when omitted, lastRun and
\* nextRun absent, and changes no other row.
C18_CreateStoresRequestedJob ==
    [][(request.verb = "POST" /\ ApiStep /\ validCreate(request.body)) =>
            /\ jobs[nextId] = Null
            /\ jobs'[nextId] # Null
            /\ jobs'[nextId].name = request.body.name[1]
            /\ jobs'[nextId].schedule = request.body.schedule[1]
            /\ jobs'[nextId].isActive = (IF request.body.isActive = <<>> THEN TRUE
                                         ELSE request.body.isActive[1])
            /\ jobs'[nextId].lastRun = NoTime
            /\ jobs'[nextId].nextRun = NoTime
            /\ \A id \in JobIds \ {nextId} : jobs'[id] = jobs[id]
            /\ nextId' = nextId + 1]_vars

\* a POST that omits isActive has been served and its job is stored active
C18_Witness ==
    /\ request.verb = "POST"
    /\ apiOps = MaxApiOps
    /\ Supplied(request.body) = {"name", "schedule"}
    /\ jobs[2] # Null
    /\ jobs[2].isActive
    /\ jobs[2].name = request.body.name[1]
    /\ jobs[2].lastRun = NoTime

\* C19: a POST whose body lacks name or lacks schedule is refused by the
\* validation pipe and the store is left as it was.
C19_IncompleteCreateRejected ==
    [][(/\ request.verb = "POST"
        /\ ApiStep
        /\ \/ "name" \notin Supplied(request.body)
           \/ "schedule" \notin Supplied(request.body)) =>
            /\ ~validCreate(request.body)
            /\ jobs' = jobs
            /\ nextId' = nextId]_vars

\* the POST of a body holding a description only has been answered and no
\* second job is stored
C19_Witness ==
    /\ request.verb = "POST"
    /\ apiOps = MaxApiOps
    /\ Supplied(request.body) = {"description"}
    /\ jobs[2] = Null
    /\ nextId = 2

\* slot p receives the result of its findMany in this step
FetchStep(p) ==
    /\ ticks[p].pc = "fetching"
    /\ ticks'[p].pc # "fetching"
    /\ ticks'[p].now # NoTime

\* C20: once remove has deleted a job, findOne of its id is null and
\* findAll does not return it, it stays so, and no fetch of a tick returns
\* a row the store does not hold; findOne of an id never assigned is null.
C20_RemovedJobIsGone ==
    /\ [][\A id \in JobIds :
            /\ (remove(id) /\ jobs[id] # Null) =>
                    (findOne(id)' = Null /\ id \notin findAll')
            /\ (id < nextId /\ findOne(id) = Null) => findOne(id)' = Null]_vars
    /\ [][\A p \in Slots :
            FetchStep(p) =>
                \A k \in 1..Len(ticks'[p].fetched) :
                    ticks'[p].fetched[k].id \in findAll]_vars
    /\ [](\A id \in RequestIds : id >= nextId => findOne(id) = Null)

\* job 1, fetched by the tick of one minute, has been removed and the tick
\* of the next minute has fetched job 2 alone
C20_Witness ==
    /\ apiOps = MaxApiOps
    /\ findOne(1) = Null
    /\ findOne(2) # Null
    /\ \E p, q \in Slots :
        /\ \E k \in 1..Len(ticks[p].fetched) : ticks[p].fetched[k].id = 1
        /\ ticks[q].now > ticks[p].now
        /\ Len(ticks[q].fetched) = 1
        /\ ticks[q].fetched[1].id = 2

\* C22: when the store cannot be reached for the fetch or for a write-back
\* of a tick, the tick is abandoned: the invocation is at its end with no
\* further job dispatched, and the store is unchanged.
C22_StoreFailureAbandonsTick ==
    [][\A p \in Slots :
        (FetchFail(p) \/ WriteFail(p)) =>
            /\ ticks'[p].pc = "done"
            /\ ticks'[p].dispatched = ticks[p].dispatched
            /\ jobs' = jobs]_vars

\* the fetched rows of slot p after index i that are due at the tick's now
DueAfter(p) == {k \in Due(p) : k > ticks[p].i}

\* C23: when the row of the job being written back has been deleted, the
\* rejected update is caught: the store is unchanged, the invocation goes on
\* to the next due job it fetched, or ends normally when there is none, and
\* the other invocations and the timer are untouched.
C23_DeletedJobDoesNotStopTick ==
    [][\A p \in Slots :
        (WriteBack(p) /\ jobs[Current(p).id] = Null) =>
            /\ jobs' = jobs
            /\ IF DueAfter(p) = {}
                THEN ticks'[p].pc = "done"
                ELSE /\ ticks'[p].pc = "executing"
                     /\ ticks'[p].i \in DueAfter(p)
                     /\ \A k \in DueAfter(p) : ticks'[p].i <= k
            /\ \A q \in Slots \ {p} : ticks'[q] = ticks[q]
            /\ lastFired' = lastFired]_vars

\* a tick dispatched two jobs; the first was deleted before its write-back
\* and the second has been executed and written back
C23_Witness ==
    \E p \in Slots :
        /\ ticks[p].pc = "done"
        /\ ticks[p].dispatched = {1, 2}
        /\ ticks[p].failed = {}
        /\ ticks[p].written = {2}
        /\ jobs[ticks[p].fetched[1].id] = Null
        /\ jobs[ticks[p].fetched[2].id] # Null
        /\ jobs[ticks[p].fetched[2].id].lastRun = ticks[p].now + ExecDelayMs

\* C24: the executor is never invoked for a job whose fetched schedule is
\* not a valid cron expression.
C24_InvalidScheduleNeverExecuted ==
    \A p \in Slots :
        \A k \in ticks[p].dispatched : cronValidate(ticks[p].fetched[k].schedule)

C28_RunTimesTogether ==
    \A id \in JobIds :
        jobs[id] # Null => (jobs[id].lastRun = NoTime <=> jobs[id].nextRun = NoTime)

\* a job that has run and was deactivated afterwards holds both timestamps
C28_Witness ==
    \E id \in JobIds :
        /\ jobs[id] # Null
        /\ ~jobs[id].isActive
        /\ jobs[id].lastRun # NoTime
        /\ jobs[id].nextRun # NoTime

\* C29: every stored job with both timestamps present has nextRun later
\* than lastRun.
C29_NextRunAfterLastRun ==
    \A id \in JobIds :
        (jobs[id] # Null /\ jobs[id].lastRun # NoTime /\ jobs[id].nextRun # NoTime)
            => jobs[id].nextRun > jobs[id].lastRun

\* a job on '0 9 * * *' started at 09:00 or later has been written back
C29_Witness ==
    \E id \in JobIds :
        /\ jobs[id] # Null
        /\ jobs[id].schedule = Daily9AM
        /\ jobs[id].lastRun # NoTime
        /\ getHours(jobs[id].lastRun) >= 9
        /\ jobs[id].nextRun > jobs[id].lastRun

\* C30: no step lowers the stored lastRun of a job.
C30_LastRunNeverDecreases ==
    [][\A id \in JobIds :
        (jobs[id] # Null /\ jobs'[id] # Null) =>
            jobs'[id].lastRun >= jobs[id].lastRun]_vars

\* the columns of a job row that a request body can set
EditableFields == {"name", "description", "schedule", "isActive"}

\* the write-back of invocation p is served on a row that exists
WriteBackServed(p) == WriteBack(p) /\ jobs[Current(p).id] # Null

\* the write-back of p leaves every other row as it was and stores its own
\* two timestamps
WriteBackStoresRunTimes(p) ==
    LET id == Current(p).id
    IN /\ \A other \in JobIds \ {id} : jobs'[other] = jobs[other]
       /\ jobs'[id] # Null
       /\ jobs'[id].lastRun = ticks[p].startTime
       /\ jobs'[id].nextRun = ticks[p].nextRun

\* C21 as stated: the write-back after a successful execution modifies only
\* lastRun and nextRun of the job; every other column of the row, edited
\* through the API since the fetch or not, is in the store unchanged after
\* the write-back.
C21_WriteBackWritesOnlyRunTimes ==
    [][\A p \in Slots :
        WriteBackServed(p) =>
            /\ WriteBackStoresRunTimes(p)
            /\ \A f \in DOMAIN jobs[Current(p).id] \ {"lastRun", "nextRun"} :
                    jobs'[Current(p).id][f] = jobs[Current(p).id][f]]_vars

\* C21 amended: the write-back after a successful execution modifies only
\* lastRun, nextRun and the bookkeeping column updatedAt of the job; name,
\* description, schedule and isActive (and id, createdAt) are in the store
\* after the write-back as they were just before it, whatever the tick
\* fetched.
C21_WriteBackKeepsApiEdits ==
    [][\A p \in Slots :
        WriteBackServed(p) =>
            /\ WriteBackStoresRunTimes(p)
            /\ jobs'[Current(p).id].updatedAt = clock
            /\ \A f \in DOMAIN jobs[Current(p).id]
                        \ {"lastRun", "nextRun", "updatedAt"} :
                    jobs'[Current(p).id][f] = jobs[Current(p).id][f]]_vars

\* an edit of the schedule was committed between p's fetch and p's
\* write-back: a later invocation q fetched the edited row before it had
\* ever run, and the store now holds the edited row with the timestamps of
\* p's dispatch
C21_Witness ==
    \E p \in Slots : \E q \in Slots \ {p} :
        \E k \in ticks[p].written, j \in DOMAIN ticks[q].fetched :
            LET snap == ticks[p].fetched[k]
                seen == ticks[q].fetched[j]
                row == jobs[snap.id]
            IN /\ row # Null
               /\ seen.id = snap.id
               /\ row.schedule # snap.schedule
               /\ seen.schedule = row.schedule
               /\ seen.lastRun = NoTime
               /\ row.lastRun = ticks[p].now
               /\ row.lastRun < ticks[q].now
               /\ row.updatedAt > row.createdAt

\* the job name holds none of the words the factory looks for
Unmatched(jobName) ==
    /\ ~includes(toLowerCase(jobName), email)
    /\ ~includes(toLowerCase(jobName), notification)
    /\ ~includes(toLowerCase(jobName), send)

\* C25: for every job name, matched or not, the executor selection returns
\* an executor and never fails: no run of executeJob ends in its catch at
\* the selection, the executor is invoked, and once the run is over the job
\* has been executed and carries its timestamps.
C25_DefaultExecute ==
    /\ selection.executor # "Error"
    /\ selection.pc # "caught"
    /\ selection.pc \in {"execute", "update", "done"} => selection.executor = "EmailJob"
    /\ selection.pc = "done" =>
            /\ jobs[1].lastRun # NoTime
            /\ jobs[1].nextRun > jobs[1].lastRun

\* a job whose name holds none of the three words has been executed and
\* written back
C25_Witness ==
    /\ selection.pc = "done"
    /\ selection.jobName # <<>>
    /\ Unmatched(selection.jobName)
    /\ selection.executor = "EmailJob"
    /\ jobs[1].lastRun # NoTime

\* C26: with two scheduler processes on one store and no lock, nothing
\* keeps the fetch of one from returning, and its loop from dispatching, a
\* job the other has in flight: every fetch step returns every active row of
\* the store, and a never-run row among them is due to the invocation, so
\* that both processes can execute one job for one due occurrence.
C26_FetchIgnoresOtherProcess ==
    [][\A p \in Slots :
        FetchStep(p) =>
            /\ {ticks'[p].fetched[k].id : k \in 1..Len(ticks'[p].fetched)} = ActiveIds
            /\ \A k \in 1..Len(ticks'[p].fetched) :
                    jobs[ticks'[p].fetched[k].id].lastRun = NoTime =>
                        /\ shouldJobRun(ticks'[p].fetched[k], ticks'[p].now)
                        /\ ticks'[p].dispatched # {}]_vars

\* the timers of both processes fired at the same minute boundary, and the
\* two invocations have both executed the same job and written it back
C26_Witness ==
    \E p \in Slots : \E q \in Slots \ {p} :
        /\ ticks[p].now # NoTime
        /\ ticks[p].now = ticks[q].now
        /\ lastFired = ticks[p].now
        /\ peerFired = ticks[p].now
        /\ \E k \in ticks[p].written, j \in ticks[q].written :
                ticks[p].fetched[k].id = ticks[q].fetched[j].id

\* the ids of the rows the table holds
StoredIds == {id \in JobIds : jobs[id] # Null}

\* C31: the scheduler never creates or re-creates job records.  The set of
\* stored ids changes only in a step of the API, which either adds the next
\* id of the sequence (create) or takes one stored id away (remove); no step
\* of an invocation of checkAndRunJobs changes it; and the write-back for a
\* job deleted during its dispatch leaves the job absent.
C31_SchedulerNeverCreatesJobs ==
    [][/\ StoredIds' # StoredIds =>
            /\ apiOps' = apiOps + 1
            /\ ticks' = ticks
            /\ \/ nextId' = nextId + 1 /\ StoredIds' = StoredIds \cup {nextId}
               \/ nextId' = nextId /\ \E id \in StoredIds : StoredIds' = StoredIds \ {id}
       /\ ticks' # ticks => (StoredIds' = StoredIds /\ nextId' = nextId)
       /\ \A p \in Slots :
            (WriteBack(p) /\ jobs[Current(p).id] = Null) =>
                jobs'[Current(p).id] = Null]_vars

\* a never-run job was fetched and dispatched, removed while its executor
\* ran, and the dispatch has ended without a failure of the executor: the
\* job is absent and its id is not assigned again
C31_Witness ==
    \E p \in Slots : \E k \in ticks[p].dispatched :
        /\ k < ticks[p].i \/ ticks[p].pc = "done"
        /\ k \notin ticks[p].failed
        /\ k \notin ticks[p].written
        /\ ticks[p].fetched[k].lastRun = NoTime
        /\ jobs[ticks[p].fetched[k].id] = Null
        /\ ticks[p].fetched[k].id < nextId
        /\ StoredIds = {}

====
